---- MODULE Spec2Model ----
(***************************************************************************)
(* Model of the jafaal authentication core:                                *)
(*   - the token codec of src/jafaal/jwt.py (create_jwt / decode_jwt on    *)
(*     top of the PyJWT calls jwt.encode / jwt.decode),                    *)
(*   - BaseUserManager.create of src/jafaal/manager.py running against    *)
(*     SQLAlchemyUserDatabase of src/jafaal/database_sqlalchemy/base.py.   *)
(*                                                                         *)
(* Time is counted in ticks of 1/TicksPerSec second so that sub-second     *)
(* lifetimes and the truncation int(timestamp) are visible.                *)
(***************************************************************************)
EXTENDS Integers, Sequences, FiniteSets, TLC

\* ------------------------------------------------------------------ bounds
TicksPerSec == 2
MaxClock == 18
MaxCalls == 2
MaxRun == 4

\* ------------------------------------------------------- program constants
NbfSkew == 10
Leeway == 5

JWT_ACCESS_TOKEN_EXPIRE_MINUTES == 15
JWT_REFRESH_TOKEN_EXPIRE_DAYS == 7

JWT_ALGORITHM == "HS256"
SUPPORTED_ALGORITHMS == {"HS256"}
NoSecret == "<None>"
NoAlgorithms == << >>

VARIABLES now, tok, issued, res,
          store, collation, pc, req, udict, found, result, creates, calls,
          last

jwtVars == <<now, tok, issued, res>>
mgrVars == <<store, collation, pc, req, udict, found, result, creates, calls,
            last>>
vars == <<now, tok, issued, res,
          store, collation, pc, req, udict, found, result, creates, calls,
          last>>

\* ------------------------------------------------------------ JSON values
JInt(n) == [t |-> "int", v |-> n]
JStr(s) == [t |-> "str", v |-> s]
JList(l) == [t |-> "list", v |-> l]

\* --------------------------------------------------------------- outcomes
Ok(v) == [exc |-> "none", val |-> v]
Raise(e, m) == [exc |-> e, msg |-> m]

\* int(datetime.timestamp()) of an instant given in ticks (instants >= 0)
IntSec(t) == t \div TicksPerSec

\* ------------------------------------------------------------------ PyJWT
HMACSign(secret, alg, payload) == <<secret, alg, payload>>

jwt_encode(payload, secret, alg) ==
    [kind |-> "jws",
     header |-> [alg |-> alg, typ |-> "JWT"],
     body |-> payload,
     sig |-> HMACSign(secret, alg, payload)]

GarbageToken == [kind |-> "garbage"]
NoToken == [kind |-> "absent"]

RECURSIVE FirstMissing(_, _)
FirstMissing(required, payload) ==
    IF required = << >> THEN "<none>"
    ELSE IF Head(required) \notin DOMAIN payload THEN Head(required)
    ELSE FirstMissing(Tail(required), payload)

validate_iat(payload, t, leeway) ==
    IF payload["iat"].t # "int"
        THEN "InvalidIssuedAtError"
    ELSE IF payload["iat"].v * TicksPerSec > t + leeway * TicksPerSec
        THEN "ImmatureSignatureError"
    ELSE "none"

validate_nbf(payload, t, leeway) ==
    IF payload["nbf"].v * TicksPerSec > t + leeway * TicksPerSec
        THEN "ImmatureSignatureError"
    ELSE "none"

\* variant: a token still counts as unexpired at the instant exp + leeway
validate_exp_strict(payload, t, leeway) ==
    IF payload["exp"].v * TicksPerSec < t - leeway * TicksPerSec
        THEN "ExpiredSignatureError"
    ELSE "none"

validate_exp(payload, t, leeway) ==
    IF payload["exp"].v * TicksPerSec <= t - leeway * TicksPerSec
        THEN "ExpiredSignatureError"
    ELSE "none"

\* variant: exp is validated before iat and nbf
validate_claims_expFirst(payload, required, t, leeway) ==
    LET missing == FirstMissing(required, payload)
        iatErr == IF "iat" \in DOMAIN payload
                  THEN validate_iat(payload, t, leeway) ELSE "none"
        nbfErr == IF "nbf" \in DOMAIN payload
                  THEN validate_nbf(payload, t, leeway) ELSE "none"
        expErr == IF "exp" \in DOMAIN payload
                  THEN validate_exp(payload, t, leeway) ELSE "none"
    IN  IF missing # "<none>" THEN Raise("MissingRequiredClaimError", missing)
        ELSE IF expErr # "none" THEN Raise(expErr, "exp")
        ELSE IF iatErr # "none" THEN Raise(iatErr, "iat")
        ELSE IF nbfErr # "none" THEN Raise(nbfErr, "nbf")
        ELSE Ok(payload)

validate_claims(payload, required, t, leeway) ==
    LET missing == FirstMissing(required, payload)
        iatErr == IF "iat" \in DOMAIN payload
                  THEN validate_iat(payload, t, leeway) ELSE "none"
        nbfErr == IF "nbf" \in DOMAIN payload
                  THEN validate_nbf(payload, t, leeway) ELSE "none"
        expErr == IF "exp" \in DOMAIN payload
                  THEN validate_exp(payload, t, leeway) ELSE "none"
    IN  IF missing # "<none>" THEN Raise("MissingRequiredClaimError", missing)
        ELSE IF iatErr # "none" THEN Raise(iatErr, "iat")
        ELSE IF nbfErr # "none" THEN Raise(nbfErr, "nbf")
        ELSE IF expErr # "none" THEN Raise(expErr, "exp")
        ELSE Ok(payload)

\* variant: the signature is not verified
jwt_decode_unverified(token, key, required, algorithms, leeway, t) ==
    IF token.kind # "jws"
        THEN Raise("DecodeError", "segments")
    ELSE IF token.header.alg \notin {algorithms[i] : i \in DOMAIN algorithms}
        THEN Raise("InvalidAlgorithmError", "alg")
    ELSE validate_claims(token.body, required, t, leeway)

jwt_decode(token, key, required, algorithms, leeway, t) ==
    IF token.kind # "jws"
        THEN Raise("DecodeError", "segments")
    ELSE IF token.header.alg \notin {algorithms[i] : i \in DOMAIN algorithms}
        THEN Raise("InvalidAlgorithmError", "alg")
    ELSE IF token.sig # HMACSign(key, token.header.alg, token.body)
        THEN Raise("InvalidSignatureError", "sig")
    ELSE validate_claims(token.body, required, t, leeway)

\* ------------------------------------------------------- src/jafaal/jwt.py
\* variant: nbf moved forward instead of backdated
IssuePayload_nbfForward(data, lifetime, t) ==
    [k \in (DOMAIN data) \cup {"iat", "exp", "nbf"} |->
        IF k = "iat" THEN JInt(IntSec(t))
        ELSE IF k = "exp" THEN JInt(IntSec(t + lifetime))
        ELSE IF k = "nbf" THEN JInt(IntSec(t + NbfSkew * TicksPerSec))
        ELSE data[k]]

\* variant: exp holds the lifetime alone, not now + lifetime
IssuePayload_expRelative(data, lifetime, t) ==
    [k \in (DOMAIN data) \cup {"iat", "exp", "nbf"} |->
        IF k = "iat" THEN JInt(IntSec(t))
        ELSE IF k = "exp" THEN JInt(IntSec(lifetime))
        ELSE IF k = "nbf" THEN JInt(IntSec(t - NbfSkew * TicksPerSec))
        ELSE data[k]]

IssuePayload(data, lifetime, t) ==
    [k \in (DOMAIN data) \cup {"iat", "exp", "nbf"} |->
        IF k = "iat" THEN JInt(IntSec(t))
        ELSE IF k = "exp" THEN JInt(IntSec(t + lifetime))
        ELSE IF k = "nbf" THEN JInt(IntSec(t - NbfSkew * TicksPerSec))
        ELSE data[k]]

\* variant: a zero lifetime is let through
create_jwt_zeroLifetime(data, lifetime, jwt_algorithm, jwt_secret, scopes_required, t) ==
    IF lifetime < 0
        THEN Raise("JWTError", "lifetime")
    ELSE IF jwt_secret = NoSecret
        THEN Raise("JWTError", "secret")
    ELSE IF jwt_algorithm \notin SUPPORTED_ALGORITHMS
        THEN Raise("JWTError", "algorithm")
    ELSE IF "sub" \notin DOMAIN data
        THEN Raise("JWTError", "sub")
    ELSE IF scopes_required /\ "scopes" \notin DOMAIN data
        THEN Raise("JWTError", "scopes")
    ELSE Ok(jwt_encode(IssuePayload(data, lifetime, t), jwt_secret, jwt_algorithm))

create_jwt(data, lifetime, jwt_algorithm, jwt_secret, scopes_required, t) ==
    IF lifetime <= 0
        THEN Raise("JWTError", "lifetime")
    ELSE IF jwt_secret = NoSecret
        THEN Raise("JWTError", "secret")
    ELSE IF jwt_algorithm \notin SUPPORTED_ALGORITHMS
        THEN Raise("JWTError", "algorithm")
    ELSE IF "sub" \notin DOMAIN data
        THEN Raise("JWTError", "sub")
    ELSE IF scopes_required /\ "scopes" \notin DOMAIN data
        THEN Raise("JWTError", "scopes")
    ELSE Ok(jwt_encode(IssuePayload(data, lifetime, t), jwt_secret, jwt_algorithm))

RequiredClaims(scopes_required) ==
    IF scopes_required THEN <<"exp", "sub", "iat", "nbf", "scopes">>
    ELSE <<"exp", "sub", "iat", "nbf">>

\* the except clauses of decode_jwt, in their order
TranslateError(err) ==
    IF err.exc = "MissingRequiredClaimError"
        \* the handler reads err.missing_claims, an attribute the exception
        \* does not have (it has .claim): evaluating the message raises
        THEN Raise("AttributeError", "missing_claims")
    ELSE IF err.exc = "ExpiredSignatureError"
        THEN Raise("JWTError", "expired")
    ELSE IF err.exc = "InvalidIssuedAtError"
        THEN Raise("JWTError", "iat")
    ELSE IF err.exc = "ImmatureSignatureError"
        THEN Raise("JWTError", "not-yet-valid")
    ELSE Raise("JWTError", "invalid")

decode_jwt(encoded_jwt, jwt_secret, algorithms, scopes_required, t) ==
    IF jwt_secret = NoSecret
        THEN Raise("JWTError", "secret")
    ELSE
        LET algs == IF algorithms = NoAlgorithms THEN <<JWT_ALGORITHM>>
                    ELSE algorithms
            r == jwt_decode(encoded_jwt, jwt_secret,
                            RequiredClaims(scopes_required), algs, Leeway, t)
        IN  IF r.exc = "none" THEN r ELSE TranslateError(r)

\* ------------------------------------------------- token codec: inputs
Subs == {"u1", "u2"}
ScopeList == <<"users:read">>
Secrets == {"s1", "s2"}

DataSet ==
    {<< >>, [scopes |-> JList(ScopeList)]}
    \cup {[sub |-> JStr(s)] : s \in Subs}
    \cup {[sub |-> JStr(s), scopes |-> JList(ScopeList)] : s \in Subs}
    \cup {[sub |-> JStr("u1"), scopes |-> JList(ScopeList), exp |-> JInt(0)]}

\* lifetimes in ticks: negative, zero, sub-second, one second, above
Lifetimes == {-1, 0, 1, TicksPerSec, TicksPerSec + 1}
IssueAlgorithms == {"HS256", "none"}
IssueSecrets == {NoSecret, "s1"}
VerifySecrets == {NoSecret, "s1", "s2"}
VerifyAlgorithms == {NoAlgorithms, <<"HS384">>}

ClaimNames == {"sub", "scopes", "iat", "nbf", "exp"}

\* payloads signed outside create_jwt (pyjwt.encode in tests/test_jwt.py),
\* with time claims placed around the current second s
ForgedPayload(keys, iatv, nbfv, expv) ==
    [k \in keys |->
        IF k = "sub" THEN JStr("u1")
        ELSE IF k = "scopes" THEN JList(ScopeList)
        ELSE IF k = "iat" THEN iatv
        ELSE IF k = "nbf" THEN nbfv
        ELSE expv]

NoIssue == [at |-> -1]
NoRes == [op |-> "none"]

\* ------------------------------------------------ token codec: actions
JwtInit ==
    /\ now \in (NbfSkew * TicksPerSec) .. (NbfSkew * TicksPerSec + TicksPerSec - 1)
    /\ tok = NoToken
    /\ issued = NoIssue
    /\ res = NoRes

\* the wall clock advances; no call has returned at the new instant
Tick ==
    /\ now < MaxClock * TicksPerSec
    /\ now' = now + 1
    /\ res' = NoRes
    /\ UNCHANGED <<tok, issued>>
    /\ UNCHANGED mgrVars

\* create_jwt and pyjwt.encode keep no state: a token does not depend on
\* the tokens produced before it, so a behaviour follows one token from the
\* instant it is produced (tok = NoToken before that)
Issue ==
    /\ tok = NoToken
    /\ \E data \in DataSet, lifetime \in Lifetimes, alg \in IssueAlgorithms,
       secret \in IssueSecrets, sr \in BOOLEAN :
        LET r == create_jwt(data, lifetime, alg, secret, sr, now)
            call == [data |-> data, lifetime |-> lifetime, alg |-> alg,
                     secret |-> secret, sr |-> sr, at |-> now]
        IN  /\ res' = [op |-> "issue", out |-> r, call |-> call]
            /\ tok' = IF r.exc = "none" THEN r.val ELSE NoToken
            /\ issued' = IF r.exc = "none" THEN call ELSE NoIssue
    /\ UNCHANGED now
    /\ UNCHANGED mgrVars

Forge ==
    /\ tok = NoToken
    /\ \E keys \in SUBSET ClaimNames,
       iatv \in {JInt(IntSec(now)), JInt(IntSec(now) + Leeway + 1), JStr("abc")},
       nbfv \in {JInt(IntSec(now)), JInt(IntSec(now) + Leeway + 1)},
       expv \in {JInt(IntSec(now) + 1), JInt(IntSec(now) - Leeway - 1)} :
        tok' = jwt_encode(ForgedPayload(keys, iatv, nbfv, expv), "s1", "HS256")
    /\ issued' = NoIssue
    /\ res' = NoRes
    /\ UNCHANGED now
    /\ UNCHANGED mgrVars

Garbage ==
    /\ tok = NoToken
    /\ tok' = GarbageToken
    /\ issued' = NoIssue
    /\ res' = NoRes
    /\ UNCHANGED now
    /\ UNCHANGED mgrVars

Verify ==
    /\ tok # NoToken
    /\ \E secret \in VerifySecrets, algorithms \in VerifyAlgorithms, sr \in BOOLEAN :
        res' = [op |-> "verify",
                out |-> decode_jwt(tok, secret, algorithms, sr, now),
                secret |-> secret, algorithms |-> algorithms, sr |-> sr]
    /\ UNCHANGED <<now, tok, issued>>
    /\ UNCHANGED mgrVars

NextJWT == Tick \/ Issue \/ Forge \/ Garbage \/ Verify

\* ------------------------------------------------------------ user store
Procs == {"p1", "p2"}
Collations == {"binary", "nocase"}

\* emails and passwords are sequences of characters
EmailA == <<"A", "@", "x">>
Emaila == <<"a", "@", "x">>
Emailb == <<"b", "@", "x">>
Emails == {EmailA, Emaila, Emailb}

GoodPassword == <<"A", "a", "1", "!", "x", "y", "z", "X", "Y", "Z">>
ShortPassword == <<"A", "a", "1", "!">>
Passwords == {GoodPassword, ShortPassword}

UpperChars == {"A", "B", "X", "Y", "Z"}
LowerChars == {"a", "b", "x", "y", "z"}
DigitChars == {"1"}
PunctChars == {"!", "@"}

LowerChar(c) ==
    CASE c = "A" -> "a"
      [] c = "B" -> "b"
      [] c = "X" -> "x"
      [] c = "Y" -> "y"
      [] c = "Z" -> "z"
      [] OTHER -> c

\* func.lower(...) of the query in get_by_email
Lower(str) == [i \in DOMAIN str |-> LowerChar(str[i])]

\* variant: the query compares the emails as they are written
EmailMatches_caseSensitive(rows, email) == {u \in rows : u.email = email}

\* rows selected by get_by_email
EmailMatches(rows, email) == {u \in rows : Lower(u.email) = Lower(email)}

\* _get_user: results.unique().scalar_one_or_none()
get_by_email(rows, email) ==
    LET m == EmailMatches(rows, email)
    IN  IF m = {} THEN Ok([id |-> 0])
        ELSE IF Cardinality(m) = 1 THEN Ok(CHOOSE u \in m : TRUE)
        ELSE Raise("MultipleResultsFound", "email")

\* the unique index on users.email, under the collation of the database
UniqueViolation(rows, email, coll) ==
    \E u \in rows :
        IF coll = "nocase" THEN Lower(u.email) = Lower(email)
        ELSE u.email = email

\* the row user_table(**create_dict) inserts: column defaults for the
\* columns the dictionary does not set, a fresh id
NewRow(rows, d) ==
    [id |-> Cardinality(rows) + 1,
     email |-> d["email"],
     hashed_password |-> d["hashed_password"],
     is_active |-> IF "is_active" \in DOMAIN d THEN d["is_active"] ELSE TRUE,
     is_superuser |-> IF "is_superuser" \in DOMAIN d THEN d["is_superuser"] ELSE FALSE,
     is_verified |-> IF "is_verified" \in DOMAIN d THEN d["is_verified"] ELSE FALSE]

db_create(rows, d, coll) ==
    IF UniqueViolation(rows, d["email"], coll)
        THEN Raise("IntegrityError", "users.email")
    ELSE Ok(NewRow(rows, d))

\* -------------------------------------------------------- password policy
MinPasswordLength == 8

\* variant: the uppercase rule is tested before the length rule
validate_password_uppercaseFirst(p) ==
    LET chars == {p[i] : i \in DOMAIN p}
    IN  IF chars \cap UpperChars = {}
            THEN Raise("PasswordPolicyError", "uppercase")
        ELSE IF Len(p) < MinPasswordLength
            THEN Raise("PasswordPolicyError", "too short")
        ELSE IF chars \cap LowerChars = {}
            THEN Raise("PasswordPolicyError", "lowercase")
        ELSE IF chars \cap DigitChars = {}
            THEN Raise("PasswordPolicyError", "digit")
        ELSE IF chars \cap PunctChars = {}
            THEN Raise("PasswordPolicyError", "special")
        ELSE Ok(TRUE)

validate_password(p) ==
    LET chars == {p[i] : i \in DOMAIN p}
    IN  IF Len(p) < MinPasswordLength
            THEN Raise("PasswordPolicyError", "too short")
        ELSE IF chars \cap UpperChars = {}
            THEN Raise("PasswordPolicyError", "uppercase")
        ELSE IF chars \cap LowerChars = {}
            THEN Raise("PasswordPolicyError", "lowercase")
        ELSE IF chars \cap DigitChars = {}
            THEN Raise("PasswordPolicyError", "digit")
        ELSE IF chars \cap PunctChars = {}
            THEN Raise("PasswordPolicyError", "special")
        ELSE Ok(TRUE)

\* the policy as a query: every rule holds
is_valid_password(p) ==
    /\ Len(p) >= MinPasswordLength
    /\ \E i \in DOMAIN p : p[i] \in UpperChars
    /\ \E i \in DOMAIN p : p[i] \in LowerChars
    /\ \E i \in DOMAIN p : p[i] \in DigitChars
    /\ \E i \in DOMAIN p : p[i] \in PunctChars

\* a hash is the identifier of its algorithm and what it was made from
PrimaryAlgorithm == "$argon2id$"
LegacyAlgorithms == {"$2b$"}
NoHash == << >>

hash_with(alg, p) == <<alg, p>>

hash_password(p) == <<"$argon2id$", p>>

\* the hash is tried with its own algorithm; a mismatch is False
verify(p, h) ==
    /\ h[1] \in {PrimaryAlgorithm} \cup LegacyAlgorithms
    /\ h[2] = p

\* variant: every matching hash is rehashed
verify_and_update_alwaysRehash(p, h) ==
    IF ~verify(p, h) THEN <<FALSE, NoHash>>
    ELSE <<TRUE, hash_password(p)>>

verify_and_update(p, h) ==
    IF ~verify(p, h) THEN <<FALSE, NoHash>>
    ELSE IF h[1] = PrimaryAlgorithm THEN <<TRUE, NoHash>>
    ELSE <<TRUE, hash_password(p)>>

\* passwords of MaxRun or fewer characters of each class
Run(c, n) == [i \in 1..n |-> c]
PolicyPasswords ==
    {Run("A", nu) \o Run("a", nl) \o Run("1", nd) \o Run("!", np) :
        nu \in 0..MaxRun, nl \in 0..MaxRun, nd \in 0..MaxRun, np \in 0..MaxRun}

\* the password of the tests, with one more character, and a short one
LoginPasswords == {GoodPassword, GoodPassword \o <<"!">>, ShortPassword}
StoredHashes ==
    {hash_with(alg, p) :
        alg \in {PrimaryAlgorithm} \cup LegacyAlgorithms, p \in LoginPasswords}

ValidatePassword ==
    /\ \E p \in PolicyPasswords \cup Passwords :
        last' = [op |-> "validate_password", password |-> p,
                 out |-> validate_password(p),
                 valid |-> is_valid_password(p)]
    /\ UNCHANGED <<store, collation, pc, req, udict, found, result, creates,
                   calls>>
    /\ UNCHANGED jwtVars

VerifyAndUpdate ==
    /\ \E p \in LoginPasswords, h \in StoredHashes :
        last' = [op |-> "verify_and_update", password |-> p, hash |-> h,
                 out |-> verify_and_update(p, h)]
    /\ UNCHANGED <<store, collation, pc, req, udict, found, result, creates,
                   calls>>
    /\ UNCHANGED jwtVars

\* ---------------------------------------------------------------- schemas
\* a BaseUserCreate is the mapping of the fields that were set
UserCreates ==
    {[email |-> e, password |-> p] : e \in Emails, p \in Passwords}
    \cup {[email |-> e, password |-> GoodPassword, is_active |-> FALSE,
           is_verified |-> TRUE] : e \in Emails}

\* keyword arguments a caller gives to BaseUserCreate(...), some with a
\* superuser flag
CreateInputs ==
    UserCreates
    \cup {[email |-> Emailb, password |-> GoodPassword, is_superuser |-> TRUE],
           [email |-> Emailb, password |-> GoodPassword, is_active |-> FALSE,
            is_verified |-> TRUE, is_superuser |-> TRUE]}

BaseUserCreateFields == {"email", "password", "is_active", "is_verified"}

\* variant: the schema keeps the extra keyword arguments
BaseUserCreate_allowExtra(input) == input

\* BaseUserCreate(**input): a pydantic model keeps its declared fields
BaseUserCreate(input) ==
    [k \in (DOMAIN input) \cap BaseUserCreateFields |-> input[k]]

\* variant: is_verified is not in the exclude set
create_update_dict_keepsVerified(uc) ==
    [k \in (DOMAIN uc) \ {"id", "is_active"} |-> uc[k]]

\* model_dump(exclude_unset=True, exclude={"id", "is_active", "is_verified"})
create_update_dict(uc) ==
    [k \in (DOMAIN uc) \ {"id", "is_active", "is_verified"} |-> uc[k]]

\* variant: the plaintext password is left in the dictionary
BuildUserDict_keepsPassword(uc, safe) ==
    IF safe
        THEN LET d == create_update_dict(uc)
             IN  Ok([k \in (DOMAIN d) \cup {"hashed_password"} |->
                       IF k = "hashed_password" THEN hash_password(d["password"])
                       ELSE d[k]])
    ELSE Raise("AttributeError", "create_update_dict_superuser")

\* user_dict of BaseUserManager.create: BaseUserCreate has no method
\* create_update_dict_superuser, so the safe=False branch raises
BuildUserDict(uc, safe) ==
    IF safe
        THEN LET d == create_update_dict(uc)
             IN  Ok([k \in ((DOMAIN d) \ {"password"}) \cup {"hashed_password"} |->
                       IF k = "hashed_password" THEN hash_password(d["password"])
                       ELSE d[k]])
    ELSE Raise("AttributeError", "create_update_dict_superuser")

\* ------------------------------------------------- BaseUserManager.create
NoResult == [exc |-> "pending"]
NoReq == [safe |-> FALSE]
NoDict == [none |-> TRUE]
NoUser == [id |-> 0]
NoLast == [op |-> "none"]

\* no call of the manager is running
TasksIdle ==
    /\ pc = [p \in Procs |-> "idle"]
    /\ req = [p \in Procs |-> NoReq]
    /\ udict = [p \in Procs |-> NoDict]
    /\ found = [p \in Procs |-> NoUser]
    /\ result = [p \in Procs |-> NoResult]
    /\ creates = [p \in Procs |-> 0]
    /\ calls = 0
    /\ last = NoLast

MgrIdle == store = {} /\ TasksIdle

\* variant: the email lookup is made before the password is validated
CreateCall_lookupFirst(p) ==
    /\ pc[p] = "idle"
    /\ calls < MaxCalls
    /\ calls' = calls + 1
    /\ \E input \in CreateInputs, safe \in BOOLEAN :
        LET uc == BaseUserCreate(input)
        IN  /\ req' = [req EXCEPT ![p] = [uc |-> uc, safe |-> safe, input |-> input]]
            /\ pc' = [pc EXCEPT ![p] = "lookup"]
            /\ result' = [result EXCEPT ![p] = NoResult]
    /\ UNCHANGED <<store, collation, udict, found, creates, last>>
    /\ UNCHANGED jwtVars

\* the call and its first await: validate_password(user_create.password)
CreateCall(p) ==
    /\ pc[p] = "idle"
    /\ calls < MaxCalls
    /\ calls' = calls + 1
    /\ \E input \in CreateInputs, safe \in BOOLEAN :
        LET uc == BaseUserCreate(input)
            v == validate_password(uc["password"])
        IN  /\ req' = [req EXCEPT ![p] = [uc |-> uc, safe |-> safe, input |-> input]]
            /\ pc' = [pc EXCEPT ![p] = IF v.exc = "none" THEN "lookup" ELSE "done"]
            /\ result' = [result EXCEPT ![p] = IF v.exc = "none" THEN NoResult ELSE v]
    /\ UNCHANGED <<store, collation, udict, found, creates, last>>
    /\ UNCHANGED jwtVars

\* get_by_email returns; the code runs on to the call of user_db.create
CreateLookup(p) ==
    /\ pc[p] = "lookup"
    /\ LET existing == get_by_email(store, req[p].uc["email"])
           d == BuildUserDict(req[p].uc, req[p].safe)
       IN  IF existing.exc # "none"
               THEN /\ pc' = [pc EXCEPT ![p] = "done"]
                    /\ result' = [result EXCEPT ![p] = existing]
                    /\ UNCHANGED <<found, udict>>
           ELSE IF existing.val # NoUser
               THEN /\ pc' = [pc EXCEPT ![p] = "done"]
                    /\ result' = [result EXCEPT ![p] = Raise("UserAlreadyExists", "email")]
                    /\ found' = [found EXCEPT ![p] = existing.val]
                    /\ UNCHANGED udict
           ELSE IF d.exc # "none"
               THEN /\ pc' = [pc EXCEPT ![p] = "done"]
                    /\ result' = [result EXCEPT ![p] = d]
                    /\ UNCHANGED <<found, udict>>
           ELSE /\ pc' = [pc EXCEPT ![p] = "insert"]
                /\ udict' = [udict EXCEPT ![p] = d.val]
                /\ UNCHANGED <<found, result>>
    /\ UNCHANGED <<store, collation, req, creates, calls, last>>
    /\ UNCHANGED jwtVars

\* user_db.create(user_dict): add, commit, refresh
CreateInsert(p) ==
    /\ pc[p] = "insert"
    /\ LET r == db_create(store, udict[p], collation)
       IN  /\ store' = IF r.exc = "none" THEN store \cup {r.val} ELSE store
           /\ result' = [result EXCEPT ![p] = r]
    /\ creates' = [creates EXCEPT ![p] = @ + 1]
    /\ pc' = [pc EXCEPT ![p] = "done"]
    /\ UNCHANGED <<collation, req, udict, found, calls, last>>
    /\ UNCHANGED jwtVars

\* the caller has taken the outcome; the task can serve another request
CreateReturn(p) ==
    /\ pc[p] = "done"
    /\ pc' = [pc EXCEPT ![p] = "idle"]
    /\ req' = [req EXCEPT ![p] = NoReq]
    /\ udict' = [udict EXCEPT ![p] = NoDict]
    /\ found' = [found EXCEPT ![p] = NoUser]
    /\ result' = [result EXCEPT ![p] = NoResult]
    /\ creates' = [creates EXCEPT ![p] = 0]
    /\ UNCHANGED <<store, collation, calls, last>>
    /\ UNCHANGED jwtVars

NextManager ==
    \E p \in Procs :
        CreateCall(p) \/ CreateLookup(p) \/ CreateInsert(p) \/ CreateReturn(p)

JwtIdle ==
    /\ now = NbfSkew * TicksPerSec
    /\ tok = NoToken
    /\ issued = NoIssue
    /\ res = NoRes

InitManager == JwtIdle /\ MgrIdle /\ collation \in Collations

SpecManager == InitManager /\ [][NextManager]_vars

InitJWT == JwtInit /\ MgrIdle /\ collation = "binary"

SpecJWT == InitJWT /\ [][NextJWT]_vars

\* ------------------------------------------- manager: get, request_verify
\* select(user_table).where(id == user_id), through _get_user
db_get(rows, id) ==
    LET m == {u \in rows : u.id = id}
    IN  IF m = {} THEN Ok(NoUser) ELSE Ok(CHOOSE u \in m : TRUE)

\* variant: a missing user is handed back as None
manager_get_returnsNone(rows, id) == db_get(rows, id)

\* BaseUserManager.get
manager_get(rows, id) ==
    LET r == db_get(rows, id)
    IN  IF r.exc # "none" THEN r
        ELSE IF r.val = NoUser THEN Raise("UserNotExists", "id")
        ELSE r

\* BaseUserManager.get_by_email
manager_get_by_email(rows, email) ==
    LET r == get_by_email(rows, email)
    IN  IF r.exc # "none" THEN r
        ELSE IF r.val = NoUser THEN Raise("UserNotExists", "email")
        ELSE r

\* timedelta(minutes=...), timedelta(days=...), in ticks
access_token_lifetime == JWT_ACCESS_TOKEN_EXPIRE_MINUTES * 60 * TicksPerSec
refresh_token_lifetime == JWT_REFRESH_TOKEN_EXPIRE_DAYS * 86400 * TicksPerSec

\* the scopes argument: None or a list
NoScopes == [given |-> FALSE]
ScopeArgs == {NoScopes, [given |-> TRUE, v |-> ScopeList]}

\* token_data of request_verify
token_data(user, scopes_required, scopes) ==
    IF scopes_required
        THEN [sub |-> JStr(ToString(user.id)), scopes |-> JList(scopes.v)]
    ELSE [sub |-> JStr(ToString(user.id))]

\* variant: is_verified is tested before is_active
request_verify_verifiedFirst(user, jwt_algorithm, jwt_secret, scopes_required, scopes, t1, t2) ==
    IF user.is_verified THEN Raise("UserAlreadyVerified", "")
    ELSE IF ~user.is_active THEN Raise("UserInactive", "")
    ELSE IF scopes_required /\ ~scopes.given THEN Raise("JWTError", "scopes")
    ELSE LET data == token_data(user, scopes_required, scopes)
             access == create_jwt(data, access_token_lifetime, jwt_algorithm,
                                  jwt_secret, scopes_required, t1)
             refresh == create_jwt(data, refresh_token_lifetime, jwt_algorithm,
                                   jwt_secret, scopes_required, t2)
         IN  IF access.exc # "none" THEN access
             ELSE IF refresh.exc # "none" THEN refresh
             ELSE Ok(<<access.val, refresh.val>>)

\* variant: the refresh token is given the lifetime of the access token
request_verify_sameLifetime(user, jwt_algorithm, jwt_secret, scopes_required, scopes, t1, t2) ==
    IF ~user.is_active THEN Raise("UserInactive", "")
    ELSE IF user.is_verified THEN Raise("UserAlreadyVerified", "")
    ELSE IF scopes_required /\ ~scopes.given THEN Raise("JWTError", "scopes")
    ELSE LET data == token_data(user, scopes_required, scopes)
             access == create_jwt(data, access_token_lifetime, jwt_algorithm,
                                  jwt_secret, scopes_required, t1)
             refresh == create_jwt(data, access_token_lifetime, jwt_algorithm,
                                   jwt_secret, scopes_required, t2)
         IN  IF access.exc # "none" THEN access
             ELSE IF refresh.exc # "none" THEN refresh
             ELSE Ok(<<access.val, refresh.val>>)

\* BaseUserManager.request_verify; the two create_jwt calls read the clock
\* at t1 and at t2. The method returns None: the value of the outcome is
\* the pair of tokens it has built
request_verify(user, jwt_algorithm, jwt_secret, scopes_required, scopes, t1, t2) ==
    IF ~user.is_active THEN Raise("UserInactive", "")
    ELSE IF user.is_verified THEN Raise("UserAlreadyVerified", "")
    ELSE IF scopes_required /\ ~scopes.given THEN Raise("JWTError", "scopes")
    ELSE LET data == token_data(user, scopes_required, scopes)
             access == create_jwt(data, access_token_lifetime, jwt_algorithm,
                                  jwt_secret, scopes_required, t1)
             refresh == create_jwt(data, refresh_token_lifetime, jwt_algorithm,
                                   jwt_secret, scopes_required, t2)
         IN  IF access.exc # "none" THEN access
             ELSE IF refresh.exc # "none" THEN refresh
             ELSE Ok(<<access.val, refresh.val>>)

\* users already in the table when the manager starts: every combination
\* of is_active and is_verified
SeedRow(id, email, active, verified) ==
    [id |-> id, email |-> email,
     hashed_password |-> hash_password(GoodPassword),
     is_active |-> active, is_superuser |-> FALSE, is_verified |-> verified]

SeedUsers ==
    {SeedRow(1, <<"x", "@", "x">>, TRUE, FALSE),
     SeedRow(2, <<"y", "@", "x">>, TRUE, TRUE),
     SeedRow(3, <<"z", "@", "x">>, FALSE, FALSE),
     SeedRow(4, <<"B", "@", "x">>, FALSE, TRUE)}

UserIds == 1 .. (Cardinality(SeedUsers) + 2)
LookupEmails == Emails \cup {u.email : u \in SeedUsers}

Get ==
    /\ calls < MaxCalls
    /\ calls' = calls + 1
    /\ \E id \in UserIds :
        last' = [op |-> "get", id |-> id, out |-> manager_get(store, id)]
    /\ UNCHANGED <<store, collation, pc, req, udict, found, result, creates>>
    /\ UNCHANGED jwtVars

GetByEmail ==
    /\ calls < MaxCalls
    /\ calls' = calls + 1
    /\ \E email \in LookupEmails :
        last' = [op |-> "get_by_email", email |-> email,
                 out |-> manager_get_by_email(store, email)]
    /\ UNCHANGED <<store, collation, pc, req, udict, found, result, creates>>
    /\ UNCHANGED jwtVars

\* variant: a successful request marks the user verified
RequestVerify_marksVerified ==
    /\ calls < MaxCalls
    /\ calls' = calls + 1
    /\ \E user \in store, alg \in IssueAlgorithms, secret \in IssueSecrets,
          scopes_required \in BOOLEAN, scopes \in ScopeArgs,
          t2 \in {now, now + 1} :
        LET r == request_verify(user, alg, secret, scopes_required, scopes,
                                now, t2)
        IN  /\ t2 <= MaxClock * TicksPerSec
            /\ last' = [op |-> "request_verify", user |-> user, alg |-> alg,
                        secret |-> secret, scopes_required |-> scopes_required,
                        scopes |-> scopes, out |-> r]
            /\ now' = IF r.exc = "none" THEN t2 ELSE now
            /\ store' = IF r.exc = "none"
                            THEN (store \ {user})
                                 \cup {[user EXCEPT !.is_verified = TRUE]}
                        ELSE store
    /\ UNCHANGED <<tok, issued, res>>
    /\ UNCHANGED <<collation, pc, req, udict, found, result, creates>>

\* request_verify has no await: it runs to its end in one step, and the
\* clock may move on between its two create_jwt calls
RequestVerify ==
    /\ calls < MaxCalls
    /\ calls' = calls + 1
    /\ \E user \in store, alg \in IssueAlgorithms, secret \in IssueSecrets,
          scopes_required \in BOOLEAN, scopes \in ScopeArgs,
          t2 \in {now, now + 1} :
        LET r == request_verify(user, alg, secret, scopes_required, scopes,
                                now, t2)
        IN  /\ t2 <= MaxClock * TicksPerSec
            /\ last' = [op |-> "request_verify", user |-> user, alg |-> alg,
                        secret |-> secret, scopes_required |-> scopes_required,
                        scopes |-> scopes, out |-> r]
            /\ now' = IF r.exc = "none" THEN t2 ELSE now
    /\ UNCHANGED <<tok, issued, res>>
    /\ UNCHANGED <<store, collation, pc, req, udict, found, result, creates>>

InitAccount ==
    /\ JwtIdle
    /\ TasksIdle
    /\ store = SeedUsers
    /\ collation \in Collations

NextPassword == ValidatePassword \/ VerifyAndUpdate

SpecPassword == InitManager /\ [][NextPassword]_vars

NextVerify == Tick \/ RequestVerify

SpecVerify == InitAccount /\ [][NextVerify]_vars

NextAccount == NextManager \/ Get \/ GetByEmail \/ RequestVerify

SpecAccount == InitAccount /\ [][NextAccount]_vars

\* ------------------------------------------------ token codec: properties
\* the last call was Verify, of a token signed with the secret given to
\* Verify and with a header algorithm that Verify accepts
WellSigned ==
    /\ res.op = "verify"
    /\ tok.kind = "jws"
    /\ res.secret # NoSecret
    /\ tok.sig[1] = res.secret
    /\ tok.header.alg = JWT_ALGORITHM
    /\ res.algorithms = NoAlgorithms

RequiredSet(sr) ==
    {"exp", "sub", "iat", "nbf"} \cup (IF sr THEN {"scopes"} ELSE {})

HasRequired == RequiredSet(res.sr) \subseteq DOMAIN tok.body

IssuedOk == res.op = "issue" /\ res.out.exc = "none"

C2_StrictOrder ==
    IssuedOk =>
        LET body == res.out.val.body
        IN  /\ body["nbf"].v < body["iat"].v
            /\ body["iat"].v < body["exp"].v
            /\ body["iat"].v = body["nbf"].v + 10

\* C2 (amended): every issued token has nbf < iat <= exp and
\* iat = nbf + 10; iat < exp holds when the lifetime is at least one second.
C2_TruncatedOrder ==
    IssuedOk =>
        LET body == res.out.val.body
        IN  /\ body["nbf"].v < body["iat"].v
            /\ body["iat"].v <= body["exp"].v
            /\ body["iat"].v = body["nbf"].v + 10
            /\ res.call.lifetime >= TicksPerSec
                 => body["iat"].v < body["exp"].v

C2_Witness ==
    /\ IssuedOk
    /\ res.call.lifetime < TicksPerSec
    /\ res.out.val.body["iat"].v = res.out.val.body["exp"].v

C4_ExpiredRightAfterExp ==
    (WellSigned /\ HasRequired
        /\ tok.body["iat"].t = "int"
        /\ tok.body["iat"].v * TicksPerSec <= now
        /\ tok.body["nbf"].v * TicksPerSec <= now
        /\ now > tok.body["exp"].v * TicksPerSec)
    => (res.out.exc = "JWTError" /\ res.out.msg = "expired")

\* C4 (amended): Verify of a correctly signed token with every required
\* claim, at any time at or after exp + 5 s, fails with JWTError, and with
\* the expired error when iat is an integer and neither iat nor nbf is more
\* than 5 s in the future.
C4_ExpiredAfterLeeway ==
    (WellSigned /\ HasRequired
        /\ now >= (tok.body["exp"].v + 5) * TicksPerSec)
    => /\ res.out.exc = "JWTError"
       /\ (/\ tok.body["iat"].t = "int"
           /\ tok.body["iat"].v * TicksPerSec <= now + 5 * TicksPerSec
           /\ tok.body["nbf"].v * TicksPerSec <= now + 5 * TicksPerSec)
          => res.out.msg = "expired"

C4_Witness ==
    /\ WellSigned
    /\ HasRequired
    /\ issued # NoIssue
    /\ now = (tok.body["exp"].v + 5) * TicksPerSec
    /\ res.out.exc = "JWTError"
    /\ res.out.msg = "expired"

\* C5: for a correctly signed, unexpired token with every required claim
\* (and an integer iat), Verify fails with the not-yet-valid error exactly
\* when now + 5 s < nbf.
C5_NotYetValidOnlyByNbf ==
    (WellSigned /\ HasRequired
        /\ tok.body["iat"].t = "int"
        /\ now < tok.body["exp"].v * TicksPerSec)
    => ((res.out.exc = "JWTError" /\ res.out.msg = "not-yet-valid")
        <=> now + 5 * TicksPerSec < tok.body["nbf"].v * TicksPerSec)

\* C6: Verify of a correctly signed token that lacks a required claim
\* fails with JWTError of the missing-claims kind.
C6_MissingClaimIsTokenError ==
    (WellSigned /\ ~HasRequired)
    => (res.out.exc = "JWTError" /\ res.out.msg = "missing-claims")

\* C7: every failing Verify call fails with JWTError and with no other
\* exception type.
C7_OnlyTokenError ==
    (res.op = "verify" /\ res.out.exc # "none") => res.out.exc = "JWTError"

C9_ConstraintViolationTranslated ==
    /\ \A p \in Procs :
        (pc[p] = "done" /\ creates[p] = 1 /\ result[p].exc # "none")
        => result[p].exc = "UserAlreadyExists"
    /\ \A p, q \in Procs :
        (/\ p # q
         /\ pc[p] = "done" /\ pc[q] = "done"
         /\ creates[p] = 1 /\ creates[q] = 1
         /\ req[p].uc["email"] = req[q].uc["email"])
        => \/ result[p].exc = "none" /\ result[q].exc = "UserAlreadyExists"
           \/ result[q].exc = "none" /\ result[p].exc = "UserAlreadyExists"

\* C10: no two stored users have emails that are equal under
\* case-insensitive comparison.
C10_EmailsUniqueIgnoringCase ==
    \A u, v \in store : u # v => Lower(u.email) # Lower(v.email)

PrivilegedFields == {"is_active", "is_verified", "is_superuser"}

\* the call of p has built the dictionary it gives to user_db.create
Forwards(p) == pc[p] = "insert" \/ creates[p] > 0

\* C11: with safe=True the dictionary given to Store.create has none of
\* is_active, is_verified, is_superuser, whatever the caller supplied, and
\* two safe requests with the same email and password forward the same
\* dictionary.
C11_SafeStripsPrivileged ==
    /\ \A p \in Procs :
        (Forwards(p) /\ req[p].safe)
        => (DOMAIN udict[p]) \cap PrivilegedFields = {}
    /\ \A p, q \in Procs :
        (/\ Forwards(p) /\ Forwards(q)
         /\ req[p].safe /\ req[q].safe
         /\ req[p].input["email"] = req[q].input["email"]
         /\ req[p].input["password"] = req[q].input["password"])
        => udict[p] = udict[q]

C11_Witness ==
    \E p, q \in Procs :
        /\ pc[p] = "insert" /\ pc[q] = "insert"
        /\ req[p].safe /\ req[q].safe
        /\ req[p].input["email"] = req[q].input["email"]
        /\ PrivilegedFields \subseteq DOMAIN req[p].input
        /\ (DOMAIN req[q].input) \cap PrivilegedFields = {}
        /\ udict[p] = udict[q]

\* C12: for either value of safe, a Create call with a compliant password
\* whose email lookup found no user calls Store.create exactly once and
\* returns the user Store.create returned.
C12_CreateSucceedsForAnySafe ==
    \A p \in Procs :
        (/\ pc[p] = "done"
         /\ result[p].exc \notin {"PasswordPolicyError", "UserAlreadyExists",
                                  "MultipleResultsFound", "IntegrityError"})
        => /\ creates[p] = 1
           /\ result[p].exc = "none"
           /\ result[p].val \in store

\* C13: every user that Create put in the store has is_verified = FALSE,
\* whatever safe and is_verified the caller gave.
C13_CreatedUsersUnverified ==
    \A u \in store : ~u.is_verified

C13_Witness ==
    \E p \in Procs :
        /\ pc[p] = "done"
        /\ result[p].exc = "none"
        /\ "is_verified" \in DOMAIN req[p].input
        /\ req[p].input["is_verified"]
        /\ result[p].val \in store
        /\ ~result[p].val.is_verified

\* C14: the dictionary given to Store.create has no password key, its
\* hashed_password is the hash of the request's password, and no stored
\* row holds a plaintext password.
C14_PasswordHashedBeforeStore ==
    /\ \A p \in Procs :
        Forwards(p)
        => /\ "password" \notin DOMAIN udict[p]
           /\ udict[p]["hashed_password"] = hash_password(req[p].input["password"])
           /\ udict[p]["hashed_password"] # req[p].input["password"]
    /\ \A u \in store : u.hashed_password \notin Passwords

C14_Witness ==
    \E p \in Procs :
        /\ pc[p] = "done"
        /\ creates[p] = 1
        /\ result[p].exc = "none"
        /\ result[p].val.hashed_password = hash_password(GoodPassword)
        /\ "password" \notin DOMAIN udict[p]

\* ------------------------------------------ request_verify: properties
VerifyCalled == last.op = "request_verify"

\* C15: request_verify fails with UserInactive for an inactive user (even
\* if verified or without scopes), else with UserAlreadyVerified for a
\* verified user, else with the token error when scopes are required and
\* not given; a failing call has built no token and the table of users is
\* as it was.
C15_VerifyFailurePrecedence ==
    VerifyCalled =>
        /\ ~last.user.is_active => last.out.exc = "UserInactive"
        /\ (last.user.is_active /\ last.user.is_verified)
            => last.out.exc = "UserAlreadyVerified"
        /\ (/\ last.user.is_active /\ ~last.user.is_verified
            /\ last.scopes_required /\ ~last.scopes.given)
            => (last.out.exc = "JWTError" /\ last.out.msg = "scopes")
        /\ last.out.exc # "none" => "val" \notin DOMAIN last.out
        /\ store = SeedUsers
        /\ last.user \in store

C15_Witness ==
    /\ VerifyCalled
    /\ ~last.user.is_active /\ last.user.is_verified
    /\ last.scopes_required /\ ~last.scopes.given
    /\ last.out.exc = "UserInactive"

\* the call met every precondition of request_verify
VerifyAccepted ==
    /\ VerifyCalled
    /\ last.user.is_active /\ ~last.user.is_verified
    /\ last.alg \in SUPPORTED_ALGORITHMS
    /\ last.secret # NoSecret
    /\ last.scopes_required => last.scopes.given

\* both tokens carry sub = str(user.id) and the same scopes, and each
\* expires its lifetime after its iat
TokensCarryUser(access, refresh) ==
    /\ access.body["sub"] = JStr(ToString(last.user.id))
    /\ refresh.body["sub"] = access.body["sub"]
    /\ DOMAIN access.body = DOMAIN refresh.body
    /\ last.scopes_required
        => /\ access.body["scopes"] = JList(last.scopes.v)
           /\ refresh.body["scopes"] = access.body["scopes"]
    /\ ~last.scopes_required => "scopes" \notin DOMAIN access.body
    /\ access.body["exp"].v
        = access.body["iat"].v + JWT_ACCESS_TOKEN_EXPIRE_MINUTES * 60
    /\ refresh.body["exp"].v
        = refresh.body["iat"].v + JWT_REFRESH_TOKEN_EXPIRE_DAYS * 86400

\* C16 as stated: an accepted request_verify builds two tokens whose
\* claims differ only in exp.
C16_TokensDifferOnlyInExp ==
    VerifyAccepted =>
        /\ last.out.exc = "none"
        /\ Len(last.out.val) = 2
        /\ TokensCarryUser(last.out.val[1], last.out.val[2])
        /\ \A k \in (DOMAIN last.out.val[1].body) \ {"exp"} :
            last.out.val[1].body[k] = last.out.val[2].body[k]

\* C16: an accepted request_verify builds exactly two tokens, access then
\* refresh, with sub = str(user.id) and the same scopes; each token has
\* exp = its own iat + its lifetime and nbf = its own iat - 10; the iat of
\* the refresh token is not before the iat of the access token.
C16_TokensStampedAtOwnIssue ==
    /\ VerifyAccepted =>
        /\ last.out.exc = "none"
        /\ Len(last.out.val) = 2
        /\ TokensCarryUser(last.out.val[1], last.out.val[2])
        /\ \A i \in 1..2 :
            last.out.val[i].body["nbf"].v
                = last.out.val[i].body["iat"].v - NbfSkew
        /\ last.out.val[2].body["iat"].v >= last.out.val[1].body["iat"].v
        /\ \A k \in (DOMAIN last.out.val[1].body) \ {"exp", "iat", "nbf"} :
            last.out.val[1].body[k] = last.out.val[2].body[k]
    /\ (VerifyCalled /\ last.out.exc = "none") => VerifyAccepted

C16_Witness ==
    /\ VerifyAccepted
    /\ last.out.exc = "none"
    /\ last.scopes_required
    /\ last.out.val[2].body["iat"].v > last.out.val[1].body["iat"].v

\* ------------------------------------------------- accounts: properties
\* the step is a call of the named operation of the manager
StepOf(op) == calls' # calls /\ pc' = pc /\ last'.op = op

\* C17: under get, get_by_email, create and request_verify a verified
\* user stays verified, and a request_verify step changes no user's
\* is_verified or is_active.
C17_VerifiedStaysVerified ==
    [][/\ \A u \in store :
            \E v \in store' :
                /\ v.id = u.id
                /\ u.is_verified => v.is_verified
       /\ StepOf("request_verify")
            => \A u \in store :
                \E v \in store' :
                    /\ v.id = u.id
                    /\ v.is_verified = u.is_verified
                    /\ v.is_active = u.is_active]_vars

C17_Witness ==
    /\ VerifyCalled
    /\ last.out.exc = "none"
    /\ \E u \in store : u.id > Cardinality(SeedUsers)
    /\ \E u \in store : u.is_verified

\* C18: get and get_by_email return exactly the user the store returns,
\* fail with UserNotExists exactly when the store returns no user, and
\* write nothing to the store.
C18_LookupsReturnStoreUser ==
    [][/\ StepOf("get")
            => LET r == db_get(store, last'.id)
               IN  /\ last'.out.exc = "UserNotExists" <=> r = Ok(NoUser)
                   /\ last'.out.exc # "UserNotExists" => last'.out = r
                   /\ last'.out.exc = "none"
                        => /\ last'.out.val \in store
                           /\ last'.out.val.id = last'.id
                   /\ store' = store
       /\ StepOf("get_by_email")
            => LET r == get_by_email(store, last'.email)
               IN  /\ last'.out.exc = "UserNotExists" <=> r = Ok(NoUser)
                   /\ last'.out.exc # "UserNotExists" => last'.out = r
                   /\ last'.out.exc = "none"
                        => /\ last'.out.val \in store
                           /\ Lower(last'.out.val.email) = Lower(last'.email)
                   /\ store' = store]_vars

C18_Witness ==
    /\ last.op = "get"
    /\ last.out.exc = "none"
    /\ last.out.val.id > Cardinality(SeedUsers)
    /\ last.out.val \in store

\* --------------------------------------------- password policy: properties
PolicyReasons == <<"too short", "uppercase", "lowercase", "digit", "special">>

\* rule i of the policy holds of password p
RuleHolds(p, i) ==
    CASE i = 1 -> Len(p) >= MinPasswordLength
      [] i = 2 -> \E k \in DOMAIN p : p[k] \in UpperChars
      [] i = 3 -> \E k \in DOMAIN p : p[k] \in LowerChars
      [] i = 4 -> \E k \in DOMAIN p : p[k] \in DigitChars
      [] i = 5 -> \E k \in DOMAIN p : p[k] \in PunctChars

\* C19: validate_password tests length >= 8, uppercase, lowercase, digit,
\* punctuation in this order and raises PasswordPolicyError with the
\* reason of the first rule that fails; it succeeds exactly when the five
\* rules hold, and is_valid_password is true exactly when it succeeds.
C19_FirstFailingRuleReported ==
    last.op = "validate_password" =>
        LET failing == {i \in 1..5 : ~RuleHolds(last.password, i)}
        IN  /\ failing = {} <=> last.out.exc = "none"
            /\ failing # {}
                => /\ last.out.exc = "PasswordPolicyError"
                   /\ \E i \in failing :
                        /\ \A j \in failing : i <= j
                        /\ last.out.msg = PolicyReasons[i]
            /\ last.valid <=> last.out.exc = "none"

C19_Witness ==
    /\ last.op = "validate_password"
    /\ Len(last.password) >= MinPasswordLength
    /\ ~RuleHolds(last.password, 3)
    /\ ~RuleHolds(last.password, 5)
    /\ last.out.exc = "PasswordPolicyError"
    /\ last.out.msg = "lowercase"
    /\ ~last.valid

\* C20: verify_and_update returns (False, None) when the password does not
\* match the hash, (True, None) when it matches a hash of the primary
\* algorithm, and (True, newHash) when it matches a legacy hash, where
\* newHash verifies the password and verify_and_update(password, newHash)
\* is (True, None).
C20_RehashOnlyLegacy ==
    last.op = "verify_and_update" =>
        LET p == last.password
            h == last.hash
            matches == h[2] = p
        IN  /\ ~matches => last.out = <<FALSE, NoHash>>
            /\ (matches /\ h[1] = PrimaryAlgorithm)
                => last.out = <<TRUE, NoHash>>
            /\ (matches /\ h[1] \in LegacyAlgorithms)
                => /\ last.out[1]
                   /\ last.out[2] # NoHash
                   /\ last.out[2][1] = PrimaryAlgorithm
                   /\ verify(p, last.out[2])
                   /\ verify_and_update(p, last.out[2]) = <<TRUE, NoHash>>

C20_Witness ==
    /\ last.op = "verify_and_update"
    /\ last.hash[1] \in LegacyAlgorithms
    /\ last.out[1]
    /\ last.out[2] = hash_password(last.password)
    /\ verify_and_update(last.password, last.out[2]) = <<TRUE, NoHash>>

\* ------------------------------------------- token codec: order of checks
\* the last call was Verify, with a secret, of a token that has three
\* segments
VerifyDecoded ==
    /\ res.op = "verify"
    /\ tok.kind = "jws"
    /\ res.secret # NoSecret

\* the algorithms Verify accepts
AcceptedAlgorithms ==
    IF res.algorithms = NoAlgorithms THEN {JWT_ALGORITHM}
    ELSE {res.algorithms[i] : i \in DOMAIN res.algorithms}

SignatureFails ==
    tok.header.alg \notin AcceptedAlgorithms \/ tok.sig[1] # res.secret

ExpFails == tok.body["exp"].v * TicksPerSec <= now - Leeway * TicksPerSec

IatMalformed == tok.body["iat"].t # "int"

IatInFuture ==
    /\ tok.body["iat"].t = "int"
    /\ tok.body["iat"].v * TicksPerSec > now + Leeway * TicksPerSec

NbfFails == tok.body["nbf"].v * TicksPerSec > now + Leeway * TicksPerSec

\* C21 as stated, for tokens that have every required claim and no iat in
\* the future: the failure reported is that of the first failing check
\* in the order signature, exp, iat well-formedness, nbf.
C21_ExpBeforeIatAndNbf ==
    (VerifyDecoded /\ HasRequired /\ ~IatInFuture)
    => IF SignatureFails
           THEN res.out.exc = "JWTError" /\ res.out.msg = "invalid"
       ELSE IF ExpFails
           THEN res.out.exc = "JWTError" /\ res.out.msg = "expired"
       ELSE IF IatMalformed
           THEN res.out.exc = "JWTError" /\ res.out.msg = "iat"
       ELSE IF NbfFails
           THEN res.out.exc = "JWTError" /\ res.out.msg = "not-yet-valid"
       ELSE res.out.exc = "none"

\* C21 (amended): the failure reported by Verify is that of the first
\* failing check in the order signature (algorithm, then signature),
\* presence of required claims, iat (an integer, not more than 5 s in the
\* future), nbf, exp; a token that is both expired and not yet valid by
\* nbf is reported as not yet valid. A missing required claim surfaces as
\* the AttributeError of the handler and not as JWTError.
C21_FirstFailingCheckReported ==
    VerifyDecoded
    => IF SignatureFails
           THEN res.out.exc = "JWTError" /\ res.out.msg = "invalid"
       ELSE IF ~HasRequired
           THEN res.out.exc = "AttributeError"
       ELSE IF IatMalformed
           THEN res.out.exc = "JWTError" /\ res.out.msg = "iat"
       ELSE IF IatInFuture \/ NbfFails
           THEN res.out.exc = "JWTError" /\ res.out.msg = "not-yet-valid"
       ELSE IF ExpFails
           THEN res.out.exc = "JWTError" /\ res.out.msg = "expired"
       ELSE res.out.exc = "none"

C21_Witness ==
    /\ VerifyDecoded
    /\ ~SignatureFails
    /\ HasRequired
    /\ ~IatMalformed /\ ~IatInFuture
    /\ NbfFails /\ ExpFails
    /\ res.out.exc = "JWTError"
    /\ res.out.msg = "not-yet-valid"

\* ------------------------------------------- create: password comes first
\* the password of the request of p violates the policy
ViolatesPolicy(r) == validate_password(r.uc["password"]).exc # "none"

\* C22: a Create call whose password violates the policy ends at once with
\* the PasswordPolicyError of validate_password, unchanged; it never
\* reaches the call of get_by_email or of Store.create and the store is as
\* it was, also when the email is already in the store.
C22_PasswordCheckedBeforeStore ==
    [][\A p \in Procs :
        /\ (pc[p] = "idle" /\ pc'[p] # "idle" /\ ViolatesPolicy(req'[p]))
            => /\ pc'[p] = "done"
               /\ result'[p] = validate_password(req'[p].uc["password"])
               /\ result'[p].exc = "PasswordPolicyError"
               /\ creates'[p] = 0
               /\ found'[p] = NoUser
               /\ store' = store
        /\ pc'[p] \in {"lookup", "insert"} => ~ViolatesPolicy(req'[p])
        /\ (pc'[p] = "done" /\ ViolatesPolicy(req'[p]))
            => /\ result'[p].exc = "PasswordPolicyError"
               /\ creates'[p] = 0]_vars

C22_Witness ==
    \E p \in Procs :
        /\ pc[p] = "done"
        /\ ViolatesPolicy(req[p])
        /\ result[p].exc = "PasswordPolicyError"
        /\ creates[p] = 0
        /\ \E u \in store : Lower(u.email) = Lower(req[p].uc["email"])

\* ------------------------------------- token codec: secret and algorithm
\* C23: Verify of a token under a secret other than the one it was signed
\* with, or with an algorithms list that does not hold the algorithm of
\* its header, fails with JWTError, whatever its time claims and the
\* instant of the call.
C23_WrongSecretOrAlgorithmRejected ==
    (/\ res.op = "verify"
     /\ tok.kind = "jws"
     /\ \/ tok.sig[1] # res.secret
        \/ tok.header.alg \notin AcceptedAlgorithms)
    => /\ res.out.exc = "JWTError"
       /\ res.out.msg \in {"invalid", "secret"}

C23_Witness ==
    /\ res.op = "verify"
    /\ issued # NoIssue
    /\ issued.secret = "s1"
    /\ res.secret = "s2"
    /\ res.algorithms = NoAlgorithms
    /\ res.sr = issued.sr
    /\ HasRequired
    /\ ~ExpFails /\ ~NbfFails /\ ~IatInFuture
    /\ res.out.exc = "JWTError"
    /\ res.out.msg = "invalid"

====
